---- MODULE Spec2Model ----
(***************************************************************************)
(* Model of src/static/app.js: the script of the activities page.         *)
(*                                                                         *)
(* The page script keeps no variables of its own between events: its state *)
(* is the DOM (the cards of #activities-list, the options of #activity,    *)
(* the signup form, the #message area and its pending hide timers) and the *)
(* continuations of the async functions that are waiting for a fetch.      *)
(* The HTTP service behind /activities is the environment; it is modelled  *)
(* from the HTTP contract of the specification (section 6).                *)
(***************************************************************************)
EXTENDS Integers, Sequences, FiniteSets, TLC

\* ---------------------------------------------------------------- bounds
\* user operations (form submissions and confirmed removals) in one run
MaxOps == 2

Names == {"Chess", "Art"}
\* the addresses the service knows, and the ones the user types into the form
Emails == {"a@x", "b@x"}
Typed == {"a@x"}

VARIABLES
    catalog,      \* service: the JSON object of GET /activities, as the sequence of
                  \*   its entries in key order (the order of Object.entries)
    dropped,      \* service: an activity has been dropped from the catalog
    tasks,        \* the async calls of the page, in order of creation
    cards,        \* #activities-list: the activity cards, in document order
    failed,       \* #activities-list shows the static failure paragraph
    options,      \* #activity: the option values appended by the script
    emailInput,   \* #email value
    selectValue,  \* #activity value
    message,      \* #message: textContent, className, hidden class
    timers,       \* pending setTimeout callbacks of showMessage
    dialog,       \* the open confirm() dialog, if any
    lastCatalog,  \* history: <<the catalog most recently delivered to the page>>
    basis,        \* history: per activity, the entry most recently rendered from
    latest,       \* history: the most recently issued GET and what it returned
    refreshed     \* history: activities whose card a targeted refresh patched

vars == <<catalog, dropped, tasks, cards, failed, options, emailInput, selectValue,
          message, timers, dialog, lastCatalog, basis, latest, refreshed>>

dom == <<cards, failed, options, emailInput, selectValue, message, timers>>
hist == <<lastCatalog, basis, latest, refreshed>>

\* ---------------------------------------------------------------- data
Range(s) == {s[i] : i \in 1..Len(s)}

\* one entry of the catalog; rev is history, the number of changes the service has
\* made to the entry's roster, and is carried along by whatever is rendered from it
Entry(n, mx, ps, rv) ==
    [name |-> n, description |-> "About " \o n, schedule |-> "Fridays",
     max_participants |-> mx, participants |-> ps, rev |-> rv]

\* activities[activityName]: the position of the key, 0 when the key is absent
KeyIndex(activities, activityName) ==
    IF \E i \in 1..Len(activities) : activities[i].name = activityName
    THEN CHOOSE i \in 1..Len(activities) : activities[i].name = activityName
    ELSE 0

HasKey(activities, activityName) == KeyIndex(activities, activityName) # 0

Lookup(activities, activityName) == activities[KeyIndex(activities, activityName)]

Keys(activities) == {activities[i].name : i \in 1..Len(activities)}

\* document.querySelector(`[data-activity-name="${activityName}"]`): first match
CardIndex(cs, activityName) ==
    IF \E i \in 1..Len(cs) : cs[i].activityName = activityName
    THEN CHOOSE i \in 1..Len(cs) :
            /\ cs[i].activityName = activityName
            /\ \A j \in 1..(i - 1) : cs[j].activityName # activityName
    ELSE 0

RemoveAt(s, i) == [j \in 1..(Len(s) - 1) |-> IF j < i THEN s[j] ELSE s[j + 1]]

RECURSIVE Without(_, _)
Without(s, e) ==
    IF s = <<>> THEN <<>>
    ELSE IF Head(s) = e THEN Without(Tail(s), e)
    ELSE <<Head(s)>> \o Without(Tail(s), e)

NoCatalog == <<>>

Task(op, activity, email, pc) ==
    [op |-> op, activity |-> activity, email |-> email, pc |-> pc,
     ok |-> FALSE, present |-> FALSE, text |-> "", body |-> NoCatalog,
     beforeSpots |-> 0, beforeRev |-> -1]

\* a finished call keeps nothing but what it was
Finished(t) == Task(t.op, t.activity, t.email, "done")

\* ---------------------------------------------------------------- rendering
\* details.max_participants - details.participants.length
SpotsLeft(details) == details.max_participants - Len(details.participants)

\* mutant: the roster is listed last to first
LoadItemsReversed(name, details) ==
    LET n == Len(details.participants)
    IN  [i \in 1..n |->
            [email |-> details.participants[n + 1 - i],
             dataActivity |-> name,
             dataEmail |-> details.participants[n + 1 - i]]]

\* fetchActivities: one <li> with its delete button per participant
LoadItems(name, details) ==
    [i \in 1..Len(details.participants) |->
        [email |-> details.participants[i],
         dataActivity |-> name,
         dataEmail |-> details.participants[i]]]

\* fetchActivities: the card built for one [name, details] pair
LoadCard(name, details) ==
    [activityName |-> name,
     title |-> name,
     description |-> details.description,
     schedule |-> details.schedule,
     spotsLeft |-> SpotsLeft(details),
     items |-> LoadItems(name, details),
     noParticipants |-> ~(Len(details.participants) > 0),
     rev |-> details.rev]

\* fetchActivities: the cards appended for Object.entries(activities)
LoadCards(activities) ==
    [i \in 1..Len(activities) |-> LoadCard(activities[i].name, activities[i])]

\* fetchActivities: the options appended for Object.entries(activities)
LoadOptions(activities) == [i \in 1..Len(activities) |-> activities[i].name]

\* mutant: every button of the list carries the email of the first participant
RefreshItemsFirstEmail(activityName, details) ==
    [i \in 1..Len(details.participants) |->
        [email |-> details.participants[i],
         dataActivity |-> activityName,
         dataEmail |-> details.participants[1]]]

\* updateActivityCard: one <li> with its delete button per participant
RefreshItems(activityName, details) ==
    [i \in 1..Len(details.participants) |->
        [email |-> details.participants[i],
         dataActivity |-> activityName,
         dataEmail |-> details.participants[i]]]

\* mutant: the availability paragraph is left as it was
PatchCardKeepsAvailability(card, activityName, details) ==
    [card EXCEPT !.items = RefreshItems(activityName, details),
                 !.noParticipants = ~(Len(details.participants) > 0),
                 !.rev = details.rev]

\* updateActivityCard: the card after its availability paragraph and its
\* participants section have been rewritten
PatchCard(card, activityName, details) ==
    [card EXCEPT !.spotsLeft = SpotsLeft(details),
                 !.items = RefreshItems(activityName, details),
                 !.noParticipants = ~(Len(details.participants) > 0),
                 !.rev = details.rev]

\* mutant: the patched card is taken out and appended again
PatchCardsMovesToEnd(cs, i, activityName, details) ==
    Append(RemoveAt(cs, i), PatchCard(cs[i], activityName, details))

\* updateActivityCard: the container after the card at position i was patched
PatchCards(cs, i, activityName, details) ==
    [cs EXCEPT ![i] = PatchCard(cs[i], activityName, details)]

\* mutant: the pending hide timer is cleared before the new one is set
ShowMessageResetsTimer(text, type) ==
    /\ message' = [text |-> text, kind |-> type, hidden |-> FALSE]
    /\ timers' = 1

\* showMessage(text, type): text, class, shown; one more hide timer pending
ShowMessage(text, type) ==
    /\ message' = [text |-> text, kind |-> type, hidden |-> FALSE]
    /\ timers' = timers + 1

\* mutant: no fallback text
DetailOnly(t) == t.text

\* result.detail || "An error occurred"
DetailOrGeneric(t) == IF t.present /\ t.text # "" THEN t.text ELSE "An error occurred"

\* ---------------------------------------------------------------- initial state
\* the catalog the page is opened against in the runs of Spec
InitCatalogs == {<<Entry("Chess", 2, <<"b@x">>, 0), Entry("Art", 1, <<>>, 0)>>}

\* every catalog over Names with these rosters and capacities, for SpecLoad
Rosters == {<<>>, <<"a@x">>, <<"b@x">>, <<"a@x", "b@x">>, <<"b@x", "a@x">>}
Capacities == {1, 2}
EntriesOf(n) == {Entry(n, mx, ps, 0) : mx \in Capacities, ps \in Rosters}
AllCatalogs ==
    {<<c, a>> : c \in EntriesOf("Chess"), a \in EntriesOf("Art")}
        \cup {<<c>> : c \in EntriesOf("Chess") \cup EntriesOf("Art")} \cup {<<>>}

NoBasis == [n \in Names |-> <<>>]

Opened(catalogs) ==
    /\ catalog \in catalogs
    /\ dropped = FALSE
    /\ tasks = <<Task("load", "", "", "load")>>   \* fetchActivities() at line 250
    /\ cards = <<>>
    /\ failed = FALSE
    /\ options = <<>>
    /\ emailInput = ""
    /\ selectValue = ""
    /\ message = [text |-> "", kind |-> "hidden", hidden |-> TRUE]
    /\ timers = 0
    /\ dialog = <<>>
    /\ lastCatalog = <<>>
    /\ basis = NoBasis
    /\ latest = [task |-> 1, got |-> FALSE, body |-> NoCatalog]
    /\ refreshed = {}

Init == Opened(InitCatalogs)

\* The page's scripts run one at a time, and none runs while confirm() is open.
Idle == dialog = <<>>

Ops == Len(tasks) - 1

\* ---------------------------------------------------------------- the service
\* (the HTTP contract of the specification; the service is not in src/)
Reply(t, ok, present, text, body, pc) ==
    [tasks EXCEPT ![t] = [@ EXCEPT !.ok = ok, !.present = present, !.text = text,
                                   !.body = body, !.pc = pc]]

\* a failure body: {detail: reason}, {detail: ""} or no detail at all
Rejections(reason) ==
    {[present |-> TRUE, text |-> reason], [present |-> TRUE, text |-> ""],
     [present |-> FALSE, text |-> ""]}

Bump(entry, ps) == [entry EXCEPT !.participants = ps, !.rev = @ + 1]

\* the service adds e to a: a is in the catalog and e is not yet signed up for it
MaySignup(a, e) ==
    /\ HasKey(catalog, a)
    /\ e \in Emails
    /\ e \notin Range(Lookup(catalog, a).participants)

\* the service removes e from a: a is in the catalog and e is signed up for it
MayUnregister(a, e) ==
    /\ HasKey(catalog, a)
    /\ e \in Range(Lookup(catalog, a).participants)

\* POST /activities/{name}/signup?email={email}
ServerSignup(t) ==
    /\ tasks[t].op = "signup" /\ tasks[t].pc = "post"
    /\ LET a == tasks[t].activity
           e == tasks[t].email
           i == KeyIndex(catalog, a)
       IN  \/ /\ MaySignup(a, e)
              /\ catalog' = [catalog EXCEPT
                               ![i] = Bump(@, Append(@.participants, e))]
              /\ tasks' = Reply(t, TRUE, TRUE, "Signed up", NoCatalog, "posted")
           \/ /\ ~MaySignup(a, e)
              /\ \E r \in Rejections("Already signed up or unknown activity") :
                    tasks' = Reply(t, FALSE, r.present, r.text, NoCatalog, "posted")
              /\ UNCHANGED catalog
    /\ UNCHANGED <<dropped, dom, dialog, hist>>

\* DELETE /activities/{name}/unregister?email={email}
ServerUnregister(t) ==
    /\ tasks[t].op = "unregister" /\ tasks[t].pc = "post"
    /\ LET a == tasks[t].activity
           e == tasks[t].email
           i == KeyIndex(catalog, a)
       IN  \/ /\ MayUnregister(a, e)
              /\ catalog' = [catalog EXCEPT
                               ![i] = Bump(@, Without(@.participants, e))]
              /\ tasks' = Reply(t, TRUE, TRUE, "Unregistered", NoCatalog, "posted")
           \/ /\ ~MayUnregister(a, e)
              /\ \E r \in Rejections("Not signed up or unknown activity") :
                    tasks' = Reply(t, FALSE, r.present, r.text, NoCatalog, "posted")
              /\ UNCHANGED catalog
    /\ UNCHANGED <<dropped, dom, dialog, hist>>

\* GET /activities: the reply carries the catalog as it is now
ServerList(t) ==
    /\ tasks[t].pc \in {"refresh", "load"}
    /\ tasks' = Reply(t, TRUE, TRUE, "", catalog,
                      IF tasks[t].pc = "refresh" THEN "refreshed" ELSE "loaded")
    /\ latest' = IF latest.task = t
                 THEN [latest EXCEPT !.got = TRUE, !.body = catalog]
                 ELSE latest
    /\ UNCHANGED <<catalog, dropped, dom, dialog, lastCatalog, basis, refreshed>>

\* an activity disappears from the service's catalog (at most once in a run)
ServerDropActivity(i) ==
    /\ ~dropped
    /\ i \in 1..Len(catalog)
    /\ catalog' = RemoveAt(catalog, i)
    /\ dropped' = TRUE
    /\ UNCHANGED <<tasks, dom, dialog, hist>>

\* ---------------------------------------------------------------- the page
\* what the card of an activity shows when an operation on it starts
Started(op, activity, email) ==
    LET c == CardIndex(cards, activity)
    IN  [Task(op, activity, email, "post") EXCEPT
            !.beforeSpots = IF c # 0 THEN cards[c].spotsLeft ELSE 0,
            !.beforeRev = IF c # 0 THEN cards[c].rev ELSE -1]

\* a fetch("/activities") of call t goes out
Issue(t, pc) ==
    /\ tasks' = [tasks EXCEPT ![t] = [@ EXCEPT !.pc = pc, !.ok = FALSE,
                     !.present = FALSE, !.text = "", !.body = NoCatalog]]
    /\ latest' = [task |-> t, got |-> FALSE, body |-> NoCatalog]

\* the user types an email and picks an option
UserEdit(e, a) ==
    /\ Idle
    /\ e \in Typed
    /\ a \in Range(options)
    /\ emailInput' = e
    /\ selectValue' = a
    /\ UNCHANGED <<catalog, dropped, tasks, cards, failed, options, message, timers,
                   dialog, hist>>

\* the host page submits the form only with an email typed and an activity picked
FormValid == emailInput # "" /\ selectValue # ""

\* signupForm submit handler, up to its fetch
Submit ==
    /\ Idle
    /\ Ops < MaxOps
    /\ FormValid
    /\ tasks' = Append(tasks, Started("signup", selectValue, emailInput))
    /\ UNCHANGED <<catalog, dropped, dom, dialog, hist>>

\* mutant: the refresh is started for the activity the select holds at that moment
SignupResponseRereadsSelect(t) ==
    /\ Idle
    /\ tasks[t].op = "signup" /\ tasks[t].pc = "posted"
    /\ IF tasks[t].ok
       THEN /\ ShowMessage(tasks[t].text, "success")
            /\ emailInput' = ""
            /\ selectValue' = ""
            /\ tasks' = [tasks EXCEPT ![t] = [@ EXCEPT !.pc = "refresh", !.ok = FALSE,
                             !.present = FALSE, !.text = "", !.body = NoCatalog,
                             !.activity = selectValue]]
            /\ latest' = [task |-> t, got |-> FALSE, body |-> NoCatalog]
       ELSE /\ ShowMessage(DetailOrGeneric(tasks[t]), "error")
            /\ tasks' = [tasks EXCEPT ![t] = Finished(@)]
            /\ UNCHANGED <<emailInput, selectValue, latest>>
    /\ UNCHANGED <<catalog, dropped, cards, failed, options, dialog,
                   lastCatalog, basis, refreshed>>

\* signupForm submit handler, after response.json()
SignupResponse(t) ==
    /\ Idle
    /\ tasks[t].op = "signup" /\ tasks[t].pc = "posted"
    /\ IF tasks[t].ok
       THEN /\ ShowMessage(tasks[t].text, "success")
            /\ emailInput' = ""                     \* signupForm.reset()
            /\ selectValue' = ""
            /\ Issue(t, "refresh")                  \* updateActivityCard(activity)
       ELSE /\ ShowMessage(DetailOrGeneric(tasks[t]), "error")
            /\ tasks' = [tasks EXCEPT ![t] = Finished(@)]
            /\ UNCHANGED <<emailInput, selectValue, latest>>
    /\ UNCHANGED <<catalog, dropped, cards, failed, options, dialog,
                   lastCatalog, basis, refreshed>>

\* mutant: the catch refreshes the card all the same
SignupThrowRefreshes(t) ==
    /\ Idle
    /\ tasks[t].op = "signup" /\ tasks[t].pc \in {"post", "posted"}
    /\ ShowMessage("Failed to sign up. Please try again.", "error")
    /\ Issue(t, "refresh")
    /\ UNCHANGED <<catalog, dropped, cards, failed, options, emailInput, selectValue,
                   dialog, lastCatalog, basis, refreshed>>

\* signupForm submit handler, catch
SignupThrow(t) ==
    /\ Idle
    /\ tasks[t].op = "signup" /\ tasks[t].pc \in {"post", "posted"}
    /\ ShowMessage("Failed to sign up. Please try again.", "error")
    /\ tasks' = [tasks EXCEPT ![t] = Finished(@)]
    /\ UNCHANGED <<catalog, dropped, cards, failed, options, emailInput, selectValue,
                   dialog, hist>>

\* activitiesList click handler on a remove button, up to confirm()
ClickRemove(i, j) ==
    /\ Idle
    /\ i \in 1..Len(cards)
    /\ j \in 1..Len(cards[i].items)
    /\ dialog' = <<[activity |-> cards[i].items[j].dataActivity,
                    email |-> cards[i].items[j].dataEmail]>>
    /\ UNCHANGED <<catalog, dropped, tasks, dom, hist>>

\* mutant: the handler goes on to its fetch although confirm() returned false
ConfirmNoSends ==
    /\ dialog # <<>>
    /\ Ops < MaxOps
    /\ dialog' = <<>>
    /\ tasks' = Append(tasks, Started("unregister", dialog[1].activity, dialog[1].email))
    /\ UNCHANGED <<catalog, dropped, dom, hist>>

\* confirm() returns false: the handler returns
ConfirmNo ==
    /\ dialog # <<>>
    /\ dialog' = <<>>
    /\ UNCHANGED <<catalog, dropped, tasks, dom, hist>>

\* confirm() returns true: the handler goes on to its fetch
ConfirmYes ==
    /\ dialog # <<>>
    /\ Ops < MaxOps
    /\ dialog' = <<>>
    /\ tasks' = Append(tasks, Started("unregister", dialog[1].activity, dialog[1].email))
    /\ UNCHANGED <<catalog, dropped, dom, hist>>

\* mutant: the card is not refreshed after a successful removal
UnregisterResponseNoRefresh(t) ==
    /\ Idle
    /\ tasks[t].op = "unregister" /\ tasks[t].pc = "posted"
    /\ ShowMessage(IF tasks[t].ok THEN tasks[t].text ELSE DetailOrGeneric(tasks[t]),
                   IF tasks[t].ok THEN "success" ELSE "error")
    /\ tasks' = [tasks EXCEPT ![t] = Finished(@)]
    /\ UNCHANGED <<catalog, dropped, cards, failed, options, emailInput, selectValue,
                   dialog, hist>>

\* activitiesList click handler, after response.json()
UnregisterResponse(t) ==
    /\ Idle
    /\ tasks[t].op = "unregister" /\ tasks[t].pc = "posted"
    /\ IF tasks[t].ok
       THEN /\ Issue(t, "refresh")                  \* updateActivityCard(activity)
            /\ ShowMessage(tasks[t].text, "success")
       ELSE /\ ShowMessage(DetailOrGeneric(tasks[t]), "error")
            /\ tasks' = [tasks EXCEPT ![t] = Finished(@)]
            /\ UNCHANGED latest
    /\ UNCHANGED <<catalog, dropped, cards, failed, options, emailInput, selectValue,
                   dialog, lastCatalog, basis, refreshed>>

\* activitiesList click handler, catch
UnregisterThrow(t) ==
    /\ Idle
    /\ tasks[t].op = "unregister" /\ tasks[t].pc \in {"post", "posted"}
    /\ ShowMessage("Failed to remove participant. Please try again.", "error")
    /\ tasks' = [tasks EXCEPT ![t] = Finished(@)]
    /\ UNCHANGED <<catalog, dropped, cards, failed, options, emailInput, selectValue,
                   dialog, hist>>

\* mutant: a missing entry or card is treated like a failed fetch
RefreshResponseFallsBack(t) ==
    /\ Idle
    /\ tasks[t].pc = "refreshed"
    /\ LET activityName == tasks[t].activity
           activities == tasks[t].body
           k == KeyIndex(activities, activityName)
           c == CardIndex(cards, activityName)
       IN  IF k = 0 \/ c = 0
           THEN /\ Issue(t, "load")
                /\ UNCHANGED <<cards, basis, refreshed>>
           ELSE /\ cards' = PatchCards(cards, c, activityName, activities[k])
                /\ basis' = [basis EXCEPT ![activityName] = <<activities[k]>>]
                /\ refreshed' = refreshed \cup {activityName}
                /\ tasks' = [tasks EXCEPT ![t] = Finished(@)]
                /\ UNCHANGED latest
    /\ lastCatalog' = <<tasks[t].body>>
    /\ UNCHANGED <<catalog, dropped, failed, options, emailInput, selectValue, message,
                   timers, dialog>>

\* updateActivityCard, after response.json()
RefreshResponse(t) ==
    /\ Idle
    /\ tasks[t].pc = "refreshed"
    /\ LET activityName == tasks[t].activity
           activities == tasks[t].body
           k == KeyIndex(activities, activityName)
           c == CardIndex(cards, activityName)
       IN  IF k = 0 \/ c = 0
           THEN UNCHANGED <<cards, basis, refreshed>>   \* console.error; return
           ELSE /\ cards' = PatchCards(cards, c, activityName, activities[k])
                /\ basis' = [basis EXCEPT ![activityName] = <<activities[k]>>]
                /\ refreshed' = refreshed \cup {activityName}
    /\ lastCatalog' = <<tasks[t].body>>
    /\ tasks' = [tasks EXCEPT ![t] = Finished(@)]
    /\ UNCHANGED <<catalog, dropped, failed, options, emailInput, selectValue, message,
                   timers, dialog, latest>>

\* mutant: the failure is only logged
RefreshThrowGivesUp(t) ==
    /\ Idle
    /\ tasks[t].pc \in {"refresh", "refreshed"}
    /\ tasks' = [tasks EXCEPT ![t] = Finished(@)]
    /\ UNCHANGED <<catalog, dropped, dom, dialog, hist>>

\* updateActivityCard, catch: fetchActivities()
RefreshThrow(t) ==
    /\ Idle
    /\ tasks[t].pc \in {"refresh", "refreshed"}
    /\ Issue(t, "load")
    /\ UNCHANGED <<catalog, dropped, dom, dialog, lastCatalog, basis, refreshed>>

\* fetchActivities, after response.json()
LoadResponse(t) ==
    /\ Idle
    /\ tasks[t].pc = "loaded"
    /\ cards' = LoadCards(tasks[t].body)            \* innerHTML = ""; appendChild...
    /\ failed' = FALSE
    /\ options' = options \o LoadOptions(tasks[t].body)
    /\ lastCatalog' = <<tasks[t].body>>
    /\ basis' = [n \in Names |->
                    IF HasKey(tasks[t].body, n) THEN <<Lookup(tasks[t].body, n)>>
                    ELSE <<>>]
    /\ tasks' = [tasks EXCEPT ![t] = Finished(@)]
    /\ UNCHANGED <<catalog, dropped, emailInput, selectValue, message, timers, dialog,
                   latest, refreshed>>

\* mutant: a failed full load is tried again
LoadThrowRetries(t) ==
    /\ Idle
    /\ tasks[t].pc \in {"load", "loaded"}
    /\ cards' = <<>>
    /\ failed' = TRUE
    /\ basis' = NoBasis
    /\ Issue(t, "load")
    /\ UNCHANGED <<catalog, dropped, options, emailInput, selectValue, message, timers,
                   dialog, lastCatalog, refreshed>>

\* mutant: the failure paragraph is added to what the container holds
LoadThrowKeepsCards(t) ==
    /\ Idle
    /\ tasks[t].pc \in {"load", "loaded"}
    /\ failed' = TRUE
    /\ tasks' = [tasks EXCEPT ![t] = Finished(@)]
    /\ UNCHANGED <<catalog, dropped, cards, options, emailInput, selectValue, message,
                   timers, dialog, hist>>

\* fetchActivities, catch
LoadThrow(t) ==
    /\ Idle
    /\ tasks[t].pc \in {"load", "loaded"}
    /\ cards' = <<>>                                \* innerHTML = "<p>Failed ...</p>"
    /\ failed' = TRUE
    /\ basis' = NoBasis
    /\ tasks' = [tasks EXCEPT ![t] = Finished(@)]
    /\ UNCHANGED <<catalog, dropped, options, emailInput, selectValue, message, timers,
                   dialog, lastCatalog, latest, refreshed>>

\* a setTimeout callback of showMessage runs.  Every timer has the same delay, so
\* the timers run in the order they were set and their number is all their state.
TimerFire ==
    /\ Idle
    /\ timers > 0
    /\ timers' = timers - 1
    /\ message' = [message EXCEPT !.hidden = TRUE]
    /\ UNCHANGED <<catalog, dropped, tasks, cards, failed, options, emailInput,
                   selectValue, dialog, hist>>

Next ==
    \/ \E e \in Typed, a \in Names : UserEdit(e, a)
    \/ Submit
    \/ \E i \in 1..Len(cards), j \in 1..Cardinality(Emails) : ClickRemove(i, j)
    \/ ConfirmNo
    \/ ConfirmYes
    \/ TimerFire
    \/ \E i \in 1..Len(catalog) : ServerDropActivity(i)
    \/ \E t \in 1..Len(tasks) :
          \/ ServerSignup(t)
          \/ ServerUnregister(t)
          \/ ServerList(t)
          \/ SignupResponse(t)
          \/ SignupThrow(t)
          \/ UnregisterResponse(t)
          \/ UnregisterThrow(t)
          \/ RefreshResponse(t)
          \/ RefreshThrow(t)
          \/ LoadResponse(t)
          \/ LoadThrow(t)

Spec == Init /\ [][Next]_vars

\* The steps of the calls: the service answering a request, and the page running the
\* continuation of a handler on the response or on the failure of its request.
TaskStep(t) ==
    \/ ServerSignup(t)
    \/ ServerUnregister(t)
    \/ ServerList(t)
    \/ SignupResponse(t)
    \/ SignupThrow(t)
    \/ UnregisterResponse(t)
    \/ UnregisterThrow(t)
    \/ RefreshResponse(t)
    \/ RefreshThrow(t)
    \/ LoadResponse(t)
    \/ LoadThrow(t)

\* Every request is answered or fails, and the event loop runs a continuation that is
\* ready whenever the page is not held by confirm(): a step of some call that is
\* possible again and again is taken.  Nothing is assumed about the user, who may
\* leave a confirm() dialog open for ever.
Fairness == SF_vars(\E t \in 1..Len(tasks) : TaskStep(t))

SpecLive == Init /\ [][Next]_vars /\ Fairness

\* The first load, against any catalog.  Until the first load has been delivered
\* the container holds no button and the select no option, so no other step of
\* Next is enabled; SpecLoad follows the page up to the end of that load.
InitLoad == Opened(AllCatalogs)

Loading == tasks[1].pc # "done"

NextLoad ==
    \/ Loading /\ \E i \in 1..Len(catalog) : ServerDropActivity(i)
    \/ Loading /\ ServerList(1)
    \/ Loading /\ LoadResponse(1)
    \/ Loading /\ LoadThrow(1)

SpecLoad == InitLoad /\ [][NextLoad]_vars

\* ---------------------------------------------------------------- claims
PositionsOf(cs, n) == {i \in 1..Len(cs) : cs[i].activityName = n}
OptionPositions(os, n) == {i \in 1..Len(os) : os[i] = n}
ItemEmails(card) == [i \in 1..Len(card.items) |-> card.items[i].email]

\* the card shows the roster and the free places of this catalog entry
Shows(card, entry) ==
    /\ card.spotsLeft = entry.max_participants - Len(entry.participants)
    /\ ItemEmails(card) = entry.participants
    /\ card.noParticipants <=> (entry.participants = <<>>)

\* the container holds exactly one card per key of C, each showing its entry
ContainerRenders(C) ==
    /\ \A i \in 1..Len(cards) : cards[i].activityName \in Keys(C)
    /\ \A n \in Keys(C) :
          /\ Cardinality(PositionsOf(cards, n)) = 1
          /\ \A i \in PositionsOf(cards, n) : Shows(cards[i], Lookup(C, n))

\* the select holds exactly one option per key of C
SelectOffers(C) ==
    /\ \A i \in 1..Len(options) : options[i] \in Keys(C)
    /\ \A n \in Keys(C) : Cardinality(OptionPositions(options, n)) = 1

\* C1: when the first load succeeds with catalog C, the container holds exactly one
\* card and the select exactly one option per key of C, and each card shows
\* max_participants minus the number of participants and the roster in service order
\* (or the placeholder when the roster is empty).
C1_InitialLoadRendersCatalog ==
    (tasks[1].pc = "done" /\ ~failed) =>
        ContainerRenders(lastCatalog[1]) /\ SelectOffers(lastCatalog[1])

C1_Witness ==
    /\ tasks[1].pc = "done" /\ ~failed
    /\ Len(lastCatalog[1]) = 2
    /\ lastCatalog[1][1].participants = <<"b@x", "a@x">>
    /\ lastCatalog[1][2].participants = <<>>
    /\ Len(cards) = 2

AllDone == \A t \in 1..Len(tasks) : tasks[t].pc = "done"

\* C2: the full load replaces the select as well as the container, so however often
\* it runs the select never holds more than one option per activity name.
C2_SelectHoldsOneOptionPerName ==
    \A n \in Names : Cardinality(OptionPositions(options, n)) <= 1

\* C3 as claimed: after the first successful load the container always equals the
\* rendering of the catalog most recently delivered to the page (stated for the
\* states the claim singles out: the container shows cards and the service still
\* offers every activity it started with).
C3_ContainerIsLastCatalog ==
    (lastCatalog # <<>> /\ ~failed /\ ~dropped) => ContainerRenders(lastCatalog[1])

\* C3: after the first successful load, the container holds only the failure
\* paragraph when the last full load failed; otherwise it holds exactly one card per
\* key of the last full load's catalog, and each card shows its activity's entry in
\* the catalog last rendered into that card (the last full load, or a later targeted
\* refresh of that activity that found the entry and the card).
C3_CardsShowTheirLastEntry ==
    lastCatalog # <<>> =>
        IF failed THEN cards = <<>>
        ELSE \A n \in Names :
                /\ Cardinality(PositionsOf(cards, n)) = Len(basis[n])
                /\ \A i \in PositionsOf(cards, n) : Shows(cards[i], basis[n][1])

\* a targeted refresh has patched the Chess card from a catalog in which Art, whose
\* card was not touched, no longer exists
C3_Witness ==
    /\ ~failed /\ lastCatalog # <<>>
    /\ "Chess" \in refreshed
    /\ ~HasKey(lastCatalog[1], "Art")
    /\ PositionsOf(cards, "Art") # {}
    /\ basis["Chess"] # <<>> /\ basis["Chess"][1].rev > 0

\* C4: once no request is in flight, the card of every activity that was refreshed
\* shows the roster and spots-left of the catalog returned to the most recently
\* issued fetch.
C4_CardsShowLatestFetch ==
    (AllDone /\ latest.got) =>
        \A n \in refreshed :
            HasKey(latest.body, n) =>
                \A i \in PositionsOf(cards, n) : Shows(cards[i], Lookup(latest.body, n))

Listed(cs, activity) ==
    IF CardIndex(cs, activity) = 0 THEN {}
    ELSE Range(ItemEmails(cs[CardIndex(cs, activity)]))

\* no fetch goes out in this step
NoRequestIssued ==
    /\ Len(tasks') = Len(tasks)
    /\ \A t \in 1..Len(tasks) :
          tasks'[t].pc \in {"post", "refresh", "load"} => tasks'[t].pc = tasks[t].pc

\* the card of activity A shows E as the operation says and spots-left moved by one
ShowsTheChange(cs, t) ==
    LET c == CardIndex(cs, t.activity)
    IN  /\ c # 0
        /\ IF t.op = "signup"
           THEN /\ t.email \in Listed(cs, t.activity)
                /\ cs[c].spotsLeft = t.beforeSpots - 1
           ELSE /\ t.email \notin Listed(cs, t.activity)
                /\ cs[c].spotsLeft = t.beforeSpots + 1

\* C5 as claimed: the refresh triggered by an ok signup of E for A ends with E in A's
\* rendered roster and spots-left one lower than before the signup; the refresh
\* triggered by an ok unregister ends with E absent and spots-left one higher
\* (stated for the refreshes that find A in the fetched catalog and A's card).
C5_RefreshShowsTheChange ==
    [][\A t \in 1..Len(tasks) :
          (/\ RefreshResponse(t)
           /\ HasKey(tasks[t].body, tasks[t].activity)
           /\ CardIndex(cards, tasks[t].activity) # 0)
              => ShowsTheChange(cards', tasks[t])]_vars

\* C5: when the refresh triggered by an ok signup or unregister of E on A fetches a
\* catalog that has A and A's card exists, the card ends showing exactly the fetched
\* entry; E is present (absent) and spots-left one lower (higher) than before the
\* operation whenever the fetched entry is exactly one change of the service newer
\* than the entry A's card showed when the operation started.
C5_RefreshShowsFetchedEntry ==
    [][\A t \in 1..Len(tasks) :
          RefreshResponse(t) =>
              LET k == KeyIndex(tasks[t].body, tasks[t].activity)
                  c == CardIndex(cards, tasks[t].activity)
              IN  (k # 0 /\ c # 0) =>
                      /\ Shows(cards'[c], tasks[t].body[k])
                      /\ (tasks[t].beforeRev >= 0
                            /\ tasks[t].body[k].rev = tasks[t].beforeRev + 1)
                              => ShowsTheChange(cards', tasks[t])]_vars

\* the refresh of a finished signup of a@x for Chess has put a@x on the Chess card
C5_Witness ==
    /\ \E t \in 1..Len(tasks) :
          /\ tasks[t].op = "signup" /\ tasks[t].pc = "done"
          /\ tasks[t].activity = "Chess" /\ tasks[t].email = "a@x"
    /\ "Chess" \in refreshed
    /\ "a@x" \in Listed(cards, "Chess")
    /\ cards[CardIndex(cards, "Chess")].rev = 1
    /\ cards[CardIndex(cards, "Chess")].spotsLeft = 0

\* C6: from the click on a removal control until confirm() is answered nothing on
\* the page changes, and when the user declines no request is issued: the cards,
\* the select, the form, the message area and the calls in flight stay as they were.
C6_DeclineChangesNothing ==
    [][/\ (dialog # <<>> \/ \E i \in 1..Len(cards), j \in 1..Cardinality(Emails) :
                               ClickRemove(i, j)) => dom' = dom
       /\ ConfirmNo => (tasks' = tasks /\ NoRequestIssued /\ catalog' = catalog)]_vars

\* the dialog is open over a visible message while a request is in flight
C6_Witness ==
    /\ dialog # <<>>
    /\ ~message.hidden
    /\ \E t \in 1..Len(tasks) : tasks[t].pc \in {"post", "posted"}

\* C7: a non-ok signup or unregister response shows its detail text (the generic
\* text when detail is absent or empty) with the error kind, starts no fetch, leaves
\* every card unchanged and does not reset the form.
C7_RejectionShowsDetail ==
    [][\A t \in 1..Len(tasks) :
          ((SignupResponse(t) \/ UnregisterResponse(t)) /\ ~tasks[t].ok) =>
              /\ message' =
                    [text |-> IF tasks[t].present /\ tasks[t].text # ""
                              THEN tasks[t].text ELSE "An error occurred",
                     kind |-> "error", hidden |-> FALSE]
              /\ NoRequestIssued
              /\ tasks'[t].pc = "done"
              /\ cards' = cards /\ failed' = failed /\ options' = options
              /\ emailInput' = emailInput /\ selectValue' = selectValue]_vars

\* a rejection without a detail text is on display, the form still filled in
C7_Witness ==
    /\ message = [text |-> "An error occurred", kind |-> "error", hidden |-> FALSE]
    /\ emailInput # ""
    /\ \E t \in 1..Len(tasks) : tasks[t].op = "signup" /\ tasks[t].pc = "done"

\* C8 as claimed: when the success message of an unregister of E from A becomes
\* visible, A's card has already been patched from the re-fetched catalog.
C8_PatchedBeforeMessage ==
    [][\A t \in 1..Len(tasks) :
          (UnregisterResponse(t) /\ tasks[t].ok) =>
              /\ tasks'[t].pc = "done"
              /\ tasks[t].email \notin Listed(cards', tasks[t].activity)]_vars

\* C8: on an ok unregister response the handler issues the refresh's GET and shows
\* the success message in the same step; the card is patched only when that GET is
\* answered, so when the message becomes visible the cards are still as they were.
C8_MessageBeforePatch ==
    [][\A t \in 1..Len(tasks) :
          (UnregisterResponse(t) /\ tasks[t].ok) =>
              /\ tasks'[t].pc = "refresh"
              /\ message' = [text |-> tasks[t].text, kind |-> "success",
                             hidden |-> FALSE]
              /\ cards' = cards]_vars

\* the success message is up, the refresh is in flight, b@x is still on the card
C8_Witness ==
    \E t \in 1..Len(tasks) :
        /\ tasks[t].op = "unregister" /\ tasks[t].pc = "refresh"
        /\ tasks[t].email \in Listed(cards, tasks[t].activity)
        /\ message = [text |-> "Unregistered", kind |-> "success", hidden |-> FALSE]

\* C9 as claimed: a visible message is hidden only by the timer of the most recent
\* showMessage call, that is, only when no timer of an earlier call is pending.
C9_HiddenOnlyByOwnTimer ==
    [][(timers' < timers /\ ~message.hidden) => timers = 1]_vars

\* C9: every showMessage call adds a hide timer and cancels none; whichever pending
\* timer runs hides the message, also one set by a later call; a visible message
\* always has a timer pending, so it is hidden at the latest when the timer of the
\* most recent call runs.
C9_EveryCallAddsATimer ==
    /\ [](~message.hidden => timers > 0)
    /\ [][/\ (message' # message /\ ~message'.hidden) => timers' = timers + 1
          /\ timers' < timers => (timers' = timers - 1 /\ message'.hidden)]_vars

\* two hide timers are pending for one visible message
C9_Witness == ~message.hidden /\ timers = 2

\* C10: a targeted refresh that finds the entry and the card rewrites that card's
\* availability and roster only: its title, description and schedule, every other
\* card, the number and order of the cards and the select stay as they were.
C10_RefreshPatchesOneCard ==
    [][\A t \in 1..Len(tasks) :
          RefreshResponse(t) =>
              LET k == KeyIndex(tasks[t].body, tasks[t].activity)
                  c == CardIndex(cards, tasks[t].activity)
              IN  (k # 0 /\ c # 0) =>
                      /\ Len(cards') = Len(cards)
                      /\ \A i \in 1..Len(cards) : i # c => cards'[i] = cards[i]
                      /\ cards'[c].activityName = cards[c].activityName
                      /\ cards'[c].title = cards[c].title
                      /\ cards'[c].description = cards[c].description
                      /\ cards'[c].schedule = cards[c].schedule
                      /\ options' = options /\ failed' = failed
                      /\ selectValue' = selectValue]_vars

\* the Chess card has been patched to a new roster next to an untouched Art card
C10_Witness ==
    /\ Len(cards) = 2
    /\ "Chess" \in refreshed
    /\ cards[1].activityName = "Chess" /\ cards[1].rev > 0
    /\ cards[2].activityName = "Art" /\ cards[2].rev = 0

\* the refresh of call t has its catalog, and the catalog has no entry for the
\* call's activity or the container has no card bound to it
FindsNothing(t) ==
    /\ tasks[t].pc = "refreshed"
    /\ \/ ~HasKey(tasks[t].body, tasks[t].activity)
       \/ CardIndex(cards, tasks[t].activity) = 0

\* C11: a targeted refresh of A whose fetch succeeds with a catalog that has no entry
\* for A, or that finds no card bound to A, returns without modifying anything: the
\* cards, the failure paragraph, the select, the form and the message area with its
\* timers are unchanged, and the call ends without starting a full load or any other
\* request.
C11_MissingEntryOrCardIsNoOp ==
    [][\A t \in 1..Len(tasks) :
          (FindsNothing(t) /\ RefreshResponse(t)) =>
              /\ dom' = dom
              /\ NoRequestIssued
              /\ tasks'[t].pc = "done"]_vars

\* the only operation of the run, an accepted signup for Art, is over; its refresh
\* fetched a catalog without Art and left the Art card in the container as it was
C11_Witness ==
    /\ Len(tasks) = 2
    /\ tasks[2].op = "signup" /\ tasks[2].activity = "Art" /\ tasks[2].pc = "done"
    /\ message.text = "Signed up"
    /\ ~failed
    /\ lastCatalog # <<>> /\ ~HasKey(lastCatalog[1], "Art")
    /\ PositionsOf(cards, "Art") # {}
    /\ "Art" \notin refreshed
    /\ cards[CardIndex(cards, "Art")].items = <<>>

\* the cards cs are exactly one card per key of C, each showing its entry
Renders(cs, C) ==
    /\ \A i \in 1..Len(cs) : cs[i].activityName \in Keys(C)
    /\ \A n \in Keys(C) :
          /\ Cardinality(PositionsOf(cs, n)) = 1
          /\ \A i \in PositionsOf(cs, n) : Shows(cs[i], Lookup(C, n))

\* call t is the only call that moves in this step
OnlyMoves(t) ==
    /\ Len(tasks') = Len(tasks)
    /\ \A u \in 1..Len(tasks) : u # t => tasks'[u] = tasks[u]

\* C12: when the fetch or the parse of a targeted refresh fails, the refresh changes
\* no card (and nothing else on the page) and starts one full load: its call goes on
\* to the GET of fetchActivities and no other request goes out.  When that full load
\* succeeds it ends the call without a further request and leaves the container with
\* exactly one card per key of the catalog it fetched, each with that catalog's
\* participant list and free places.
C12_FailedRefreshFallsBackToLoad ==
    [][\A t \in 1..Len(tasks) :
          /\ RefreshThrow(t) =>
                /\ dom' = dom
                /\ tasks'[t].pc = "load"
                /\ tasks'[t].activity = tasks[t].activity
                /\ OnlyMoves(t)
          /\ (tasks[t].op # "load" /\ LoadResponse(t)) =>
                /\ Renders(cards', tasks[t].body)
                /\ ~failed'
                /\ tasks'[t].pc = "done"
                /\ OnlyMoves(t)]_vars

\* the refresh of an accepted signup of a@x for Chess failed and the full load that
\* replaced it succeeded: a@x is on a Chess card that no refresh has patched, and
\* the select has received the options of two loads
C12_Witness ==
    /\ Len(tasks) = 2
    /\ tasks[2].op = "signup" /\ tasks[2].activity = "Chess" /\ tasks[2].pc = "done"
    /\ ~failed /\ Len(cards) = 2
    /\ "a@x" \in Listed(cards, "Chess")
    /\ refreshed = {}
    /\ Len(options) = 4

\* C13: when a full load fails, the container is left with the failure paragraph
\* alone: every card of an earlier load is gone and no card of the failed one is
\* there, and the call ends without a further request.  The failure paragraph and
\* a card are never in the container together.
C13_FailedLoadShowsOnlyFailure ==
    /\ [](failed => cards = <<>>)
    /\ [][\A t \in 1..Len(tasks) :
             LoadThrow(t) =>
                 /\ failed' /\ cards' = <<>>
                 /\ tasks'[t].pc = "done"
                 /\ OnlyMoves(t)]_vars

\* the first load had rendered the cards and filled the select; the full load that
\* stood in for the failed refresh of the run's only operation failed as well
C13_Witness ==
    /\ failed /\ cards = <<>>
    /\ Len(options) = 2
    /\ lastCatalog # <<>> /\ Len(lastCatalog[1]) = 2
    /\ Len(tasks) = 2 /\ tasks[2].pc = "done"
    /\ tasks[1].pc = "done"

\* the text the catch of an operation shows
FailureText(op) ==
    IF op = "signup" THEN "Failed to sign up. Please try again."
    ELSE "Failed to remove participant. Please try again."

\* C14: when the request of a signup or of an unregister throws (the fetch fails, or
\* the body of its response cannot be parsed), the handler shows the generic failure
\* text of its operation with the error kind and returns: no refresh and no catalog
\* fetch goes out, and the cards, the failure paragraph, the select and the form are
\* as they were.
C14_ThrowShowsGenericFailure ==
    [][\A t \in 1..Len(tasks) :
          (SignupThrow(t) \/ UnregisterThrow(t)) =>
              /\ message' = [text |-> FailureText(tasks[t].op), kind |-> "error",
                             hidden |-> FALSE]
              /\ tasks'[t].pc = "done"
              /\ OnlyMoves(t)
              /\ cards' = cards /\ failed' = failed /\ options' = options
              /\ emailInput' = emailInput /\ selectValue' = selectValue]_vars

\* the failure text of a signup whose response could not be read is on display; the
\* service had accepted the signup, the Chess card does not show it and the form is
\* still filled in
C14_Witness ==
    /\ message = [text |-> "Failed to sign up. Please try again.", kind |-> "error",
                  hidden |-> FALSE]
    /\ emailInput = "a@x" /\ selectValue = "Chess"
    /\ Len(tasks) = 2 /\ tasks[2].pc = "done" /\ tasks[2].op = "signup"
    /\ HasKey(catalog, "Chess") /\ "a@x" \in Range(Lookup(catalog, "Chess").participants)
    /\ "a@x" \notin Listed(cards, "Chess")
    /\ refreshed = {}

\* C15: every removal control in the container carries the name of the card it is in
\* and the email of the list item it is in, whether a full load or a targeted
\* refresh built it.  Hence the pair the click handler reads from the control, asks
\* the user about and names in its DELETE request is rendered as a participant of
\* that activity from the click until the request goes out.
C15_ControlsNameTheirItem ==
    /\ [](\A i \in 1..Len(cards) : \A j \in 1..Len(cards[i].items) :
              /\ cards[i].items[j].dataActivity = cards[i].activityName
              /\ cards[i].items[j].dataEmail = cards[i].items[j].email)
    /\ [](dialog # <<>> => dialog[1].email \in Listed(cards, dialog[1].activity))
    /\ [][/\ \A i \in 1..Len(cards), j \in 1..Cardinality(Emails) :
                ClickRemove(i, j) =>
                    dialog' = <<[activity |-> cards[i].activityName,
                                 email |-> cards[i].items[j].email]>>
          /\ ConfirmYes =>
                /\ Len(tasks') = Len(tasks) + 1
                /\ tasks'[Len(tasks')].op = "unregister"
                /\ tasks'[Len(tasks')].pc = "post"
                /\ tasks'[Len(tasks')].activity = dialog[1].activity
                /\ tasks'[Len(tasks')].email = dialog[1].email
                /\ tasks'[Len(tasks')].email
                      \in Listed(cards, tasks'[Len(tasks')].activity)]_vars

\* the DELETE for a@x on Chess is on its way; the control that was clicked had been
\* built by the targeted refresh that followed the signup of a@x
C15_Witness ==
    /\ Len(tasks) = 3
    /\ tasks[2].op = "signup" /\ tasks[2].pc = "done"
    /\ tasks[3].op = "unregister" /\ tasks[3].pc = "post"
    /\ tasks[3].activity = "Chess" /\ tasks[3].email = "a@x"
    /\ "Chess" \in refreshed
    /\ Len(options) = 2
    /\ Len(cards) = 2 /\ Len(cards[1].items) = 2
    /\ cards[1].activityName = "Chess" /\ cards[1].items[2].dataEmail = "a@x"

\* C16: a call keeps the activity and the email it was started with: the ones the
\* form held at the submit, or the ones of the clicked control.  The POST or DELETE
\* changes that activity's roster only; the refresh started on the ok response is
\* a refresh of that activity, whatever the select holds by then (the user may have
\* picked another option while the request was in flight, and the signup handler has
\* reset the form just before), and it touches no card of another activity.
C16_RefreshTargetsSubmittedActivity ==
    [][/\ Submit =>
             /\ tasks'[Len(tasks')].activity = selectValue
             /\ tasks'[Len(tasks')].email = emailInput
       /\ \A t \in 1..Len(tasks) :
             /\ tasks'[t].activity = tasks[t].activity
             /\ tasks'[t].email = tasks[t].email
             /\ tasks'[t].op = tasks[t].op
             /\ (ServerSignup(t) \/ ServerUnregister(t)) =>
                   \A i \in 1..Len(catalog) :
                       catalog[i].name # tasks[t].activity => catalog'[i] = catalog[i]
             /\ ((SignupResponse(t) \/ UnregisterResponse(t)) /\ tasks[t].ok) =>
                   tasks'[t].pc = "refresh"
             /\ (SignupResponse(t) /\ tasks[t].ok) => selectValue' = ""
             /\ RefreshResponse(t) =>
                   /\ Len(cards') = Len(cards)
                   /\ \A i \in 1..Len(cards) :
                         cards[i].activityName # tasks[t].activity
                             => cards'[i] = cards[i]]_vars

\* the signup for Chess was answered after the user had picked Art and submitted
\* again (that second request is still on its way and the form is empty, reset by
\* the first response); the refresh that followed put a@x on the Chess card and
\* left the Art card alone
C16_Witness ==
    /\ Len(tasks) = 3
    /\ tasks[2].op = "signup" /\ tasks[2].activity = "Chess" /\ tasks[2].pc = "done"
    /\ tasks[3].op = "signup" /\ tasks[3].activity = "Art" /\ tasks[3].pc = "post"
    /\ selectValue = "" /\ emailInput = ""
    /\ refreshed = {"Chess"}
    /\ "a@x" \in Listed(cards, "Chess")
    /\ Listed(cards, "Art") = {}

\* a request of call t is out and not yet answered
Awaiting(t) == tasks[t].pc \in {"post", "refresh", "load"}

\* no request is in flight
Quiet == \A t \in 1..Len(tasks) : ~Awaiting(t)

\* the steps a call can take: one mutation request; then, on an ok response only,
\* one refresh GET; then, when that refresh failed only, one full-load GET
ChainStep(from, ok, to) ==
    \/ from = "post" /\ to \in {"posted", "done"}
    \/ from = "posted" /\ to = "done"
    \/ from = "posted" /\ ok /\ to = "refresh"
    \/ from = "refresh" /\ to \in {"refreshed", "load"}
    \/ from = "refreshed" /\ to \in {"done", "load"}
    \/ from = "load" /\ to \in {"loaded", "done"}
    \/ from = "loaded" /\ to = "done"

\* C17: every user action causes a bounded chain of requests.  A submit or a
\* confirmed removal starts one call with its mutation request out; the call issues
\* at most one refresh GET, only on an ok response, and at most one full-load GET,
\* only when that refresh failed; a request once answered is never sent again and a
\* call that has ended, a failed full load included, issues nothing more.  With
\* every request answered or failing, eventually no request is in flight, and when
\* the user does not hold the page in a confirm() dialog for ever, every call ends.
C17_RequestChainsEnd ==
    /\ [][/\ Len(tasks') \in {Len(tasks), Len(tasks) + 1}
          /\ Len(tasks') = Len(tasks) + 1 =>
                /\ Submit \/ ConfirmYes
                /\ tasks'[Len(tasks')].pc = "post"
          /\ \A t \in 1..Len(tasks) :
                \/ tasks'[t].pc = tasks[t].pc
                \/ ChainStep(tasks[t].pc, tasks[t].ok, tasks'[t].pc)
          /\ \A t \in 1..Len(tasks) : LoadThrow(t) => tasks'[t].pc = "done"]_vars
    /\ <>[]Quiet
    /\ []<>Idle => <>[]AllDone

\* both operations of the run are over with no request left: one went through its
\* whole chain (mutation, failed refresh, full load, which filled the select a
\* second time), the other ended with a failed full load or a patched card
C17_Witness ==
    /\ Len(tasks) = 3 /\ AllDone /\ Quiet
    /\ Len(options) = 4
    /\ failed \/ refreshed # {}

====
